---- MODULE Spec2Model ----
(***************************************************************************)
(* A model of the CSP class of csp.py: construction of the binary          *)
(* constraint store, the AC-3 pass (ac_3 / revise / neighbors), the        *)
(* recursive backtracking search, and the alldiff helper.                   *)
(*                                                                         *)
(* Python values are modelled as follows.                                  *)
(*   - a dict is a sequence of <<key, value>> entries with distinct keys,  *)
(*     in insertion order (Python dicts iterate in insertion order);       *)
(*   - the result of dict.get is an option: <<>> for None, <<v>> for v;    *)
(*   - a set of integers iterates in the order of its hash-table slots,    *)
(*     which depends on how the caller built the set: it is any order,     *)
(*     and an in-place removal may rebuild the table, so the values left   *)
(*     are again in any order;                                             *)
(*   - the constructor keeps the caller's dict and sets uncopied, so one   *)
(*     set object may be the domain of several variables;                  *)
(*   - a set of strings iterates in an order that depends on the hash      *)
(*     seed of the process, so its iteration order is any order.           *)
(***************************************************************************)
EXTENDS Integers, Sequences, FiniteSets, TLC

VARIABLES
    variables,           \* self.variables: the list of declared variables
    domains,             \* self.domains: variable -> set of values
    edges,               \* the edges argument of the constructor
    binary_constraints,  \* self.binary_constraints: dict (u,v) -> set of value pairs
    pc,                  \* "new", "KeyError", "idle", "ac_3", "backtrack",
                         \* "alldiff", "returned"
    queue,               \* ac_3: the local worklist of arcs
    assignment,          \* backtrack: the dict being built
    stack,               \* backtrack: one frame per active recursive call: its var,
                         \* the values its for loop has still to take (todo) and,
                         \* as history, the assignment it was called with (began)
    mode,                \* backtrack: position inside the top call
    op,                  \* the method called last ("none" before any call)
    ret,                 \* what it returned: "-", "True", "False", "None", "dict"
    entry,               \* history: self.domains when that method was called
    prevOp,              \* history: the method that completed before it
    prevRet,             \* history: what that one returned
    prevEntry,           \* history: self.domains when that one was called
    declared,            \* history: self.domains as passed to the constructor
    calls,               \* history: number of method calls made so far
    args,                \* alldiff: the list passed in
    pairs,               \* alldiff: the list returned (<<"-">> before the call)
    slots,               \* variable -> the values of its domain set in the order
                         \* of their hash-table slots, the order in which the set
                         \* iterates
    shared               \* the keys of domains grouped by set object: two keys are
                         \* in one group when the caller's dict holds one and the
                         \* same set for both

vars == <<variables, domains, edges, binary_constraints, pc, queue, assignment,
          stack, mode, op, ret, entry, prevOp, prevRet, prevEntry, declared,
          calls, args, pairs, slots, shared>>

----------------------------------------------------------------------------
(* Bounds of the model. *)

MaxVars == 3
MaxVal == 2
MaxEdges == 2
MaxCalls == 2

NamePool == <<"A", "B", "C", "D", "E", "F">>
VarList(n) == SubSeq(NamePool, 1, n)
Values == 1..MaxVal
Range(s) == {s[i] : i \in DOMAIN s}

RECURSIVE SeqsUpTo(_, _)
SeqsUpTo(S, n) ==
    IF n = 0 THEN {<<>>}
    ELSE LET shorter == SeqsUpTo(S, n - 1)
         IN shorter \cup {Append(s, x) : s \in {t \in shorter : Len(t) = n - 1}, x \in S}

----------------------------------------------------------------------------
(* Python dict and set primitives. *)

None == <<>>
Some(v) == <<v>>

DictKeys(d) == [i \in DOMAIN d |-> d[i][1]]
DictHas(d, k) == \E i \in DOMAIN d : d[i][1] = k
DictGet(d, k) ==
    IF DictHas(d, k) THEN Some(d[CHOOSE i \in DOMAIN d : d[i][1] = k][2]) ELSE None
\* d[k] = v: an existing key keeps its place, a new key goes last
DictSet(d, k, v) ==
    IF DictHas(d, k)
    THEN [i \in DOMAIN d |-> IF d[i][1] = k THEN <<k, v>> ELSE d[i]]
    ELSE Append(d, <<k, v>>)
\* DictDel with a defect: nothing is deleted
DictDelNothing(d, k) == d
\* del d[k]
DictDel(d, k) == SelectSeq(d, LAMBDA e : e[1] # k)

\* bool(x) of an option holding a set: None and the empty set are falsy
Truthy(o) == o # None /\ o[1] # {}
\* a or b
PyOr(a, b) == IF Truthy(a) THEN a ELSE b

\* the iteration orders a set of strings can have
Orders(S) == {s \in SeqsUpTo(S, Cardinality(S)) : Len(s) = Cardinality(S) /\ Range(s) = S}

----------------------------------------------------------------------------
(* CSP.__init__ *)

\* PairSet with a defect: the pairs are drawn from all values, not from the
\* two domains
PairSetAnyValue(doms, v1, v2) ==
    {p \in Values \X Values : p[1] # p[2] /\ doms[v1] # {} /\ doms[v2] # {}}

\* PairSet with a defect: only (value1, value2) is stored, not (value2, value1)
PairSetOneWay(doms, v1, v2) ==
    {p \in doms[v1] \X doms[v2] : p[1] # p[2]}

\* the value pairs stored for one edge
PairSet(doms, v1, v2) ==
    UNION {{<<a, b>>, <<b, a>>} : <<a, b>> \in {p \in doms[v1] \X doms[v2] : p[1] # p[2]}}

\* self.domains[variable1] / self.domains[variable2] raise KeyError on a missing
\* key; the second lookup is only reached when the first domain is not empty
KeyErrorAt(doms, e) ==
    \/ e[1] \notin DOMAIN doms
    \/ doms[e[1]] # {} /\ e[2] \notin DOMAIN doms

ConstructRaises(doms, es) == \E i \in DOMAIN es : KeyErrorAt(doms, es[i])

RECURSIVE BuildConstraints(_, _, _)
BuildConstraints(doms, es, bc) ==
    IF es = <<>> THEN bc
    ELSE LET e == Head(es)
             allowed == IF doms[e[1]] = {} THEN {} ELSE PairSet(doms, e[1], e[2])
         IN BuildConstraints(doms, Tail(es), DictSet(bc, e, allowed))

----------------------------------------------------------------------------
(* CSP.neighbors, CSP.revise, CSP.ac_3 *)

Neighbors(bc, x) ==
    {bc[i][1][2] : i \in {j \in DOMAIN bc : bc[j][1][1] = x}}
        \cup {bc[i][1][1] : i \in {j \in DOMAIN bc : bc[j][1][2] = x}}

Allowed(bc, Xi, Xj) == PyOr(DictGet(bc, <<Xi, Xj>>), DictGet(bc, <<Xj, Xi>>))

ToRemove(doms, bc, Xi, Xj) ==
    LET allowed == Allowed(bc, Xi, Xj)
    IN IF allowed = None THEN {}
       ELSE {x \in doms[Xi] : ~ \E y \in doms[Xj] : <<x, y>> \in allowed[1]}

\* Revise with a defect: the domain is rebuilt from the allowed pairs
ReviseRebuild(doms, bc, Xi, Xj) ==
    LET allowed == Allowed(bc, Xi, Xj)
    IN IF allowed = None THEN doms
       ELSE [doms EXCEPT ![Xi] = {p[1] : p \in {q \in allowed[1] : q[2] \in doms[Xj]}}]

\* the keys of domains whose value is the set object that x's domain is
SameObject(x) == CHOOSE b \in shared : x \in b

\* the domains after revise(Xi, Xj); revise returns True iff they changed:
\* difference_update shrinks the set object in place, under every key that
\* holds it
Revise(doms, bc, Xi, Xj) ==
    [v \in DOMAIN doms |->
        IF v \in SameObject(Xi) THEN doms[Xi] \ ToRemove(doms, bc, Xi, Xj) ELSE doms[v]]

\* the slot orders after revise(Xi, Xj) has left the domains after: a set
\* that lost values iterates in any order, the others as before
Reslot(doms, bc, Xi, Xj, after) ==
    IF ToRemove(doms, bc, Xi, Xj) = {} THEN {slots}
    ELSE {[v \in DOMAIN slots |-> IF v \in SameObject(Xi) THEN o ELSE slots[v]] :
             o \in Orders(after[Xi])}

Revised(doms, bc, Xi, Xj) == ToRemove(doms, bc, Xi, Xj) # {}

RECURSIVE InitialQueue(_)
InitialQueue(keys) ==
    IF keys = <<>> THEN <<>>
    ELSE <<Head(keys), <<Head(keys)[2], Head(keys)[1]>>>> \o InitialQueue(Tail(keys))

\* the while loop of ac_3 run to its end from the worklist q, popping the
\* last arc as the code does: the outcomes (value returned, domains left)
\* it can have, one for each order in which the sets nbrs can iterate
RECURSIVE Ac3Loop(_, _, _)
Ac3Loop(doms, bc, q) ==
    IF q = <<>> THEN {[ret |-> "True", domains |-> doms]}
    ELSE LET Xi == q[Len(q)][1]
             Xj == q[Len(q)][2]
             rest == SubSeq(q, 1, Len(q) - 1)
             after == Revise(doms, bc, Xi, Xj)
         IN IF ~Revised(doms, bc, Xi, Xj) THEN Ac3Loop(doms, bc, rest)
            ELSE IF after[Xi] = {} THEN {[ret |-> "False", domains |-> after]}
            ELSE UNION {Ac3Loop(after, bc, rest \o [k \in DOMAIN ord |-> <<ord[k], Xi>>]) :
                            ord \in Orders(Neighbors(bc, Xi) \ {Xj})}

\* the outcomes ac_3() can have on an instance
Ac3Lifo(doms, bc) == Ac3Loop(doms, bc, InitialQueue(DictKeys(bc)))

----------------------------------------------------------------------------
(* backtracking_search: _is_complete, _select_unassigned, _is_consistent *)

\* SelectUnassigned with a defect: the last unassigned variable is taken
SelectLastUnassigned(vs, asg) ==
    IF \E i \in DOMAIN vs : ~DictHas(asg, vs[i])
    THEN vs[CHOOSE i \in DOMAIN vs :
                /\ ~DictHas(asg, vs[i])
                /\ \A j \in (i + 1)..Len(vs) : DictHas(asg, vs[j])]
    ELSE "RuntimeError"

IsComplete(vs, asg) == \A i \in DOMAIN vs : DictHas(asg, vs[i])

\* the first declared variable not in the assignment (RuntimeError if none)
SelectUnassigned(vs, asg) ==
    IF \E i \in DOMAIN vs : ~DictHas(asg, vs[i])
    THEN vs[CHOOSE i \in DOMAIN vs :
                /\ ~DictHas(asg, vs[i])
                /\ \A j \in 1..(i - 1) : DictHas(asg, vs[j])]
    ELSE "RuntimeError"

\* IsConsistent with a defect: only the key (var, n) is looked up
IsConsistentForwardOnly(doms, bc, var, val, asg) ==
    /\ val \in doms[var]
    /\ \A i \in DOMAIN asg :
        LET allowed_ab == DictGet(bc, <<var, asg[i][1]>>)
        IN ~(allowed_ab # None /\ <<val, asg[i][2]>> \notin allowed_ab[1])

IsConsistent(doms, bc, var, val, asg) ==
    /\ val \in doms[var]
    /\ \A i \in DOMAIN asg :
        LET n == asg[i][1]
            nval == asg[i][2]
            allowed_ab == DictGet(bc, <<var, n>>)
            allowed_ba == DictGet(bc, <<n, var>>)
        IN /\ ~(allowed_ab # None /\ <<val, nval>> \notin allowed_ab[1])
           /\ ~(allowed_ba # None /\ <<nval, val>> \notin allowed_ba[1])

----------------------------------------------------------------------------
(* alldiff *)

\* [(variables[i], variables[j]) for i in range(len - 1) for j in range(i + 1, len)]
RECURSIVE AlldiffFrom(_, _, _)
AlldiffFrom(vs, i, j) ==
    IF i > Len(vs) - 1 THEN <<>>
    ELSE IF j > Len(vs) THEN AlldiffFrom(vs, i + 1, i + 2)
    ELSE <<<<vs[i], vs[j]>>>> \o AlldiffFrom(vs, i, j + 1)

\* Alldiff with a defect: the inner range starts at i instead of i + 1
AlldiffWithSelf(vs) == AlldiffFrom(vs, 1, 1)

Alldiff(vs) == AlldiffFrom(vs, 1, 2)

----------------------------------------------------------------------------
(* Initial states. *)

\* the slot orders the sets of a domains dict can have
\* the ways of splitting the set D into groups
RECURSIVE Partitions(_)
Partitions(D) ==
    IF D = {} THEN {{}}
    ELSE LET x == CHOOSE y \in D : TRUE
         IN UNION {{P \cup {{x}}} \cup {(P \ {b}) \cup {b \cup {x}} : b \in P} :
                      P \in Partitions(D \ {x})}

\* the ways in which the keys of a domains dict can share set objects: keys
\* that hold one object hold the same values
Sharings(doms) ==
    {P \in Partitions(DOMAIN doms) :
        \A b \in P : \A u \in b, v \in b : doms[u] = doms[v]}

\* the slot orders the sets of a domains dict can have
SlotOrders(doms, sh) ==
    {f \in [DOMAIN doms -> SeqsUpTo(Values, MaxVal)] :
        /\ \A v \in DOMAIN doms : f[v] \in Orders(doms[v])
        /\ \A b \in sh : \A u \in b, v \in b : f[u] = f[v]}

NoCall ==
    /\ queue = <<>>
    /\ assignment = <<>>
    /\ stack = <<>>
    /\ mode = "-"
    /\ op = "none"
    /\ ret = "-"
    /\ prevOp = "none"
    /\ prevRet = "-"
    /\ calls = 0

NoAlldiff ==
    /\ args = <<>>
    /\ pairs = <<"-">>

\* a CSP instance built from declared variables, one domain per declared
\* variable, and edges between declared variables
Init ==
    /\ \E n \in 0..MaxVars :
        /\ variables = VarList(n)
        /\ domains \in [Range(VarList(n)) -> SUBSET Values]
        /\ shared \in Sharings(domains)
        /\ slots \in SlotOrders(domains, shared)
        /\ edges \in SeqsUpTo(Range(VarList(n)) \X Range(VarList(n)), MaxEdges)
    /\ binary_constraints = BuildConstraints(domains, edges, <<>>)
    /\ pc = "idle"
    /\ declared = domains
    /\ entry = domains
    /\ prevEntry = domains
    /\ NoCall
    /\ NoAlldiff

\* the arguments of a constructor call, well formed or not: "Z" is a name
\* that is never in the variables list
InitNew ==
    /\ \E n \in 0..MaxVars :
        /\ variables = VarList(n)
        /\ \E S \in SUBSET (Range(VarList(n)) \cup {"Z"}) :
                domains \in [S -> SUBSET Values]
        /\ shared \in Sharings(domains)
        /\ slots \in SlotOrders(domains, shared)
        /\ edges \in SeqsUpTo((Range(VarList(n)) \cup {"Z"}) \X (Range(VarList(n)) \cup {"Z"}),
                              MaxEdges)
    /\ binary_constraints = <<>>
    /\ pc = "new"
    /\ declared = domains
    /\ entry = domains
    /\ prevEntry = domains
    /\ NoCall
    /\ NoAlldiff

InitAlldiff ==
    /\ args \in SeqsUpTo(Range(VarList(MaxVars + 1)), MaxVars)
    /\ pairs = <<"-">>
    /\ variables = <<>>
    /\ domains = <<>>
    /\ slots = <<>>
    /\ shared = {}
    /\ edges = <<>>
    /\ binary_constraints = <<>>
    /\ pc = "alldiff"
    /\ declared = <<>>
    /\ entry = <<>>
    /\ prevEntry = <<>>
    /\ NoCall

----------------------------------------------------------------------------
(* Actions. *)

\* CSP(variables, domains, edges)
Construct ==
    /\ pc = "new"
    /\ IF ConstructRaises(domains, edges)
       THEN pc' = "KeyError" /\ UNCHANGED binary_constraints
       ELSE /\ pc' = "idle"
            /\ binary_constraints' = BuildConstraints(domains, edges, <<>>)
    /\ UNCHANGED <<variables, domains, edges, queue, assignment, stack, mode, op, ret,
                   entry, prevOp, prevRet, prevEntry, declared, calls, args, pairs, slots, shared>>

\* bookkeeping of a method call
Enter(name) ==
    /\ pc = "idle"
    /\ calls < MaxCalls
    /\ calls' = calls + 1
    /\ prevOp' = op
    /\ prevRet' = ret
    /\ prevEntry' = entry
    /\ op' = name
    /\ ret' = "-"
    /\ entry' = domains

\* csp.ac_3(): lines 56-59
Ac3Call ==
    /\ Enter("ac_3")
    /\ pc' = "ac_3"
    /\ queue' = InitialQueue(DictKeys(binary_constraints))
    /\ assignment' = <<>>
    /\ UNCHANGED <<variables, domains, edges, binary_constraints, stack, mode,
                   declared, args, pairs, slots, shared>>

\* Ac3Step with a defect: an emptied domain does not end the loop
Ac3StepNoEarlyExit ==
    /\ pc = "ac_3"
    /\ queue # <<>>
    /\ LET Xi == queue[Len(queue)][1]
           Xj == queue[Len(queue)][2]
           rest == SubSeq(queue, 1, Len(queue) - 1)
           after == Revise(domains, binary_constraints, Xi, Xj)
       IN /\ domains' = after
          /\ slots' \in Reslot(domains, binary_constraints, Xi, Xj, after)
          /\ IF ~Revised(domains, binary_constraints, Xi, Xj)
             THEN queue' = rest
             ELSE \E ord \in Orders(Neighbors(binary_constraints, Xi) \ {Xj}) :
                        queue' = rest \o [k \in DOMAIN ord |-> <<ord[k], Xi>>]
          /\ UNCHANGED <<pc, ret>>
    /\ UNCHANGED <<variables, edges, binary_constraints, assignment, stack, mode, op,
                   entry, prevOp, prevRet, prevEntry, declared, calls, args, pairs, shared>>

\* Ac3Step with a defect: the arc is read from the worklist but left on it
Ac3StepNoPop ==
    /\ pc = "ac_3"
    /\ queue # <<>>
    /\ LET Xi == queue[Len(queue)][1]
           Xj == queue[Len(queue)][2]
           rest == queue
           after == Revise(domains, binary_constraints, Xi, Xj)
       IN /\ domains' = after
          /\ slots' \in Reslot(domains, binary_constraints, Xi, Xj, after)
          /\ IF ~Revised(domains, binary_constraints, Xi, Xj)
             THEN /\ queue' = rest
                  /\ UNCHANGED <<pc, ret>>
             ELSE IF after[Xi] = {}
             THEN /\ queue' = <<>>
                  /\ pc' = "idle"
                  /\ ret' = "False"
             ELSE /\ \E ord \in Orders(Neighbors(binary_constraints, Xi) \ {Xj}) :
                        queue' = rest \o [k \in DOMAIN ord |-> <<ord[k], Xi>>]
                  /\ UNCHANGED <<pc, ret>>
    /\ UNCHANGED <<variables, edges, binary_constraints, assignment, stack, mode, op,
                   entry, prevOp, prevRet, prevEntry, declared, calls, args, pairs, shared>>

\* one iteration of the while loop: lines 61-75
Ac3Step ==
    /\ pc = "ac_3"
    /\ queue # <<>>
    /\ LET Xi == queue[Len(queue)][1]
           Xj == queue[Len(queue)][2]
           rest == SubSeq(queue, 1, Len(queue) - 1)
           after == Revise(domains, binary_constraints, Xi, Xj)
       IN /\ domains' = after
          /\ slots' \in Reslot(domains, binary_constraints, Xi, Xj, after)
          /\ IF ~Revised(domains, binary_constraints, Xi, Xj)
             THEN /\ queue' = rest
                  /\ UNCHANGED <<pc, ret>>
             ELSE IF after[Xi] = {}
             THEN /\ queue' = <<>>
                  /\ pc' = "idle"
                  /\ ret' = "False"
             ELSE /\ \E ord \in Orders(Neighbors(binary_constraints, Xi) \ {Xj}) :
                        queue' = rest \o [k \in DOMAIN ord |-> <<ord[k], Xi>>]
                  /\ UNCHANGED <<pc, ret>>
    /\ UNCHANGED <<variables, edges, binary_constraints, assignment, stack, mode, op,
                   entry, prevOp, prevRet, prevEntry, declared, calls, args, pairs, shared>>

\* the loop ends: line 77
Ac3ReturnTrue ==
    /\ pc = "ac_3"
    /\ queue = <<>>
    /\ pc' = "idle"
    /\ ret' = "True"
    /\ UNCHANGED <<variables, domains, edges, binary_constraints, queue, assignment,
                   stack, mode, op, entry, prevOp, prevRet, prevEntry, declared,
                   calls, args, pairs, slots, shared>>

\* csp.revise(Xi, Xj) called by the user of the class: lines 79-114
ReviseCall ==
    /\ pc = "idle"
    /\ calls < MaxCalls
    /\ \E Xi \in Range(variables), Xj \in Range(variables) :
          /\ domains' = Revise(domains, binary_constraints, Xi, Xj)
          /\ slots' \in Reslot(domains, binary_constraints, Xi, Xj,
                                Revise(domains, binary_constraints, Xi, Xj))
          /\ ret' = IF Revised(domains, binary_constraints, Xi, Xj) THEN "True" ELSE "False"
    /\ calls' = calls + 1
    /\ prevOp' = op
    /\ prevRet' = ret
    /\ prevEntry' = entry
    /\ op' = "revise"
    /\ entry' = domains
    /\ UNCHANGED <<variables, edges, binary_constraints, pc, queue, assignment, stack,
                   mode, declared, args, pairs, shared>>

\* csp.backtracking_search(): line 239, backtrack({})
SearchCall ==
    /\ Enter("backtracking_search")
    /\ pc' = "backtrack"
    /\ assignment' = <<>>
    /\ stack' = <<>>
    /\ mode' = "enter"
    /\ UNCHANGED <<variables, domains, edges, binary_constraints, queue,
                   declared, args, pairs, slots, shared>>

\* backtrack(assignment) begins: lines 227-230.  A complete assignment is
\* returned, and every caller passes it on (lines 234-235)
BtEnter ==
    /\ pc = "backtrack"
    /\ mode = "enter"
    /\ IF IsComplete(variables, assignment)
       THEN /\ pc' = "idle"
            /\ ret' = "dict"
            /\ stack' = <<>>
            /\ mode' = "-"
       ELSE LET var == SelectUnassigned(variables, assignment)
            IN /\ stack' = Append(stack, [var |-> var,
                                          todo |-> slots[var],
                                          began |-> assignment])
               /\ mode' = "loop"
               /\ UNCHANGED <<pc, ret>>
    /\ UNCHANGED <<variables, domains, edges, binary_constraints, queue, assignment, op,
                   entry, prevOp, prevRet, prevEntry, declared, calls, args, pairs, slots, shared>>

\* BtTry with a defect: the search prunes the domain of the variable it
\* assigns, as a forward-checking search that never restores would
BtTryPruning ==
    /\ pc = "backtrack"
    /\ mode = "loop"
    /\ stack[Len(stack)].todo # <<>>
    /\ LET top == stack[Len(stack)]
           val == Head(top.todo)
       IN /\ stack' = [stack EXCEPT ![Len(stack)].todo = Tail(top.todo)]
          /\ IF IsConsistent(domains, binary_constraints, top.var, val, assignment)
             THEN /\ assignment' = DictSet(assignment, top.var, val)
                  /\ domains' = [domains EXCEPT ![top.var] = {val}]
                  /\ mode' = "enter"
             ELSE UNCHANGED <<assignment, mode, domains>>
    /\ UNCHANGED <<variables, edges, binary_constraints, pc, queue, op, ret,
                   entry, prevOp, prevRet, prevEntry, declared, calls, args, pairs, slots, shared>>

\* the for loop takes its next value: lines 230-233
BtTry ==
    /\ pc = "backtrack"
    /\ mode = "loop"
    /\ stack[Len(stack)].todo # <<>>
    /\ LET top == stack[Len(stack)]
           val == Head(top.todo)
       IN /\ stack' = [stack EXCEPT ![Len(stack)].todo = Tail(top.todo)]
          /\ IF IsConsistent(domains, binary_constraints, top.var, val, assignment)
             THEN /\ assignment' = DictSet(assignment, top.var, val)
                  /\ mode' = "enter"
             ELSE UNCHANGED <<assignment, mode>>
    /\ UNCHANGED <<variables, domains, edges, binary_constraints, pc, queue, op, ret,
                   entry, prevOp, prevRet, prevEntry, declared, calls, args, pairs, slots, shared>>

\* the for loop is exhausted, the call returns None: line 237
BtFail ==
    /\ pc = "backtrack"
    /\ mode = "loop"
    /\ stack[Len(stack)].todo = <<>>
    /\ stack' = SubSeq(stack, 1, Len(stack) - 1)
    /\ IF Len(stack) = 1
       THEN /\ pc' = "idle"
            /\ ret' = "None"
            /\ mode' = "-"
       ELSE /\ mode' = "undo"
            /\ UNCHANGED <<pc, ret>>
    /\ UNCHANGED <<variables, domains, edges, binary_constraints, queue, assignment, op,
                   entry, prevOp, prevRet, prevEntry, declared, calls, args, pairs, slots, shared>>

\* the caller got None back: line 236, del assignment[var]
BtUndo ==
    /\ pc = "backtrack"
    /\ mode = "undo"
    /\ assignment' = DictDel(assignment, stack[Len(stack)].var)
    /\ mode' = "loop"
    /\ UNCHANGED <<variables, domains, edges, binary_constraints, pc, queue, stack, op,
                   ret, entry, prevOp, prevRet, prevEntry, declared, calls, args, pairs, slots, shared>>

\* alldiff(args)
AlldiffCall ==
    /\ pc = "alldiff"
    /\ pairs = <<"-">>
    /\ pairs' = Alldiff(args)
    /\ pc' = "returned"
    /\ UNCHANGED <<variables, domains, edges, binary_constraints, queue, assignment,
                   stack, mode, op, ret, entry, prevOp, prevRet, prevEntry, declared,
                   calls, args, slots, shared>>

\* one iteration of the while loop of ac_3 with the worklist discipline left
\* open: any arc of the worklist is taken (the last one is the code's choice,
\* the first one a first-in-first-out queue's)
Ac3StepAnyOrder ==
    /\ pc = "ac_3"
    /\ queue # <<>>
    /\ \E at \in DOMAIN queue :
        LET Xi == queue[at][1]
            Xj == queue[at][2]
            rest == SubSeq(queue, 1, at - 1) \o SubSeq(queue, at + 1, Len(queue))
            after == Revise(domains, binary_constraints, Xi, Xj)
        IN /\ domains' = after
           /\ slots' \in Reslot(domains, binary_constraints, Xi, Xj, after)
           /\ IF ~Revised(domains, binary_constraints, Xi, Xj)
              THEN /\ queue' = rest
                   /\ UNCHANGED <<pc, ret>>
              ELSE IF after[Xi] = {}
              THEN /\ queue' = <<>>
                   /\ pc' = "idle"
                   /\ ret' = "False"
              ELSE /\ \E ord \in Orders(Neighbors(binary_constraints, Xi) \ {Xj}) :
                         queue' = rest \o [k \in DOMAIN ord |-> <<ord[k], Xi>>]
                   /\ UNCHANGED <<pc, ret>>
    /\ UNCHANGED <<variables, edges, binary_constraints, assignment, stack, mode, op,
                   entry, prevOp, prevRet, prevEntry, declared, calls, args, pairs, shared>>

Next ==
    \/ ReviseCall
    \/ Ac3Call
    \/ Ac3Step
    \/ Ac3ReturnTrue
    \/ SearchCall
    \/ BtEnter
    \/ BtTry
    \/ BtFail
    \/ BtUndo

Spec == Init /\ [][Next]_vars

NextNew == Construct

SpecNew == InitNew /\ [][NextNew]_vars

NextAlldiff == AlldiffCall

SpecAlldiff == InitAlldiff /\ [][NextAlldiff]_vars

NextAnyOrder ==
    \/ ReviseCall
    \/ Ac3Call
    \/ Ac3StepAnyOrder
    \/ Ac3ReturnTrue

\* ac_3 with any worklist discipline
SpecAnyOrder == Init /\ [][NextAnyOrder]_vars

\* ac_3() alone, called up to MaxCalls times; a call that has started runs
\* on: the interpreter executes the loop of lines 61-77 without waiting
NextAc3 == ReviseCall \/ Ac3Call \/ Ac3Step \/ Ac3ReturnTrue
SpecAc3Live == Init /\ [][NextAc3]_vars /\ WF_vars(Ac3Step) /\ WF_vars(Ac3ReturnTrue)

----------------------------------------------------------------------------
(* Vocabulary of the properties. *)

VarSet == Range(variables)
EdgeSet == Range(edges)

\* the complete assignments over doms that satisfy every declared edge
Solutions(doms) ==
    {f \in [VarSet -> Values] :
        /\ \A v \in VarSet : f[v] \in doms[v]
        /\ \A e \in EdgeSet : f[e[1]] # f[e[2]]}

\* the complete assignments over doms that satisfy every declared edge
\* between two different variables
ProperSolutions(doms) ==
    {f \in [VarSet -> Values] :
        /\ \A v \in VarSet : f[v] \in doms[v]
        /\ \A e \in EdgeSet : e[1] # e[2] => f[e[1]] # f[e[2]]}

\* the assignment dict holds exactly the mapping f
AssignmentIs(f) ==
    /\ Len(assignment) = Cardinality(VarSet)
    /\ \A v \in VarSet : DictGet(assignment, v) = Some(f[v])

Ac3Returned == pc = "idle" /\ op = "ac_3"
SearchReturned == pc = "idle" /\ op = "backtracking_search"

ArcConsistent(doms, Xi, Xj) == \A x \in doms[Xi] : \E y \in doms[Xj] : x # y

\* constructor arguments that are not a CSP: an edge names an undeclared
\* variable, or a declared variable has no domain
Malformed ==
    \/ \E e \in EdgeSet : e[1] \notin VarSet \/ e[2] \notin VarSet
    \/ \E v \in VarSet : v \notin DOMAIN domains

\* the elements of a list are pairwise different
PairwiseDifferent(s) == \A i, j \in DOMAIN s : i # j => s[i] # s[j]

\* the place of the value x in the sequence s
Pos(s, x) == CHOOSE i \in DOMAIN s : s[i] = x

\* f comes before g in the order induced by the declaration order of the
\* variables and the iteration order of each variable's domain
LexLess(f, g) ==
    \E i \in DOMAIN variables :
        /\ Pos(slots[variables[i]], f[variables[i]]) < Pos(slots[variables[i]], g[variables[i]])
        /\ \A j \in 1..(i - 1) : f[variables[j]] = g[variables[j]]

\* s is what is left of t after taking some of its first elements
IsSuffix(s, t) == \E k \in 0..Len(t) : s = SubSeq(t, k + 1, Len(t))

\* the variables that have an entry in the dict asg
Assigned(asg) == {asg[i][1] : i \in DOMAIN asg}

\* the variables joined to x by a declared edge, in either direction
EdgeNeighbours(x) ==
    {e[1] : e \in {d \in EdgeSet : d[2] = x}} \cup {e[2] : e \in {d \in EdgeSet : d[1] = x}}

----------------------------------------------------------------------------
(* Properties. *)

\* C1: when backtracking_search() returns an assignment, the assignment has
\* exactly one entry for every declared variable and no other entry, every
\* value is in the current domain of its variable, and the two ends of every
\* declared edge between two different variables have different values.
C1_SearchResultIsProper ==
    (SearchReturned /\ ret = "dict") =>
        /\ \A v \in VarSet :
              Cardinality({i \in DOMAIN assignment : assignment[i][1] = v}) = 1
        /\ \A i \in DOMAIN assignment :
              /\ assignment[i][1] \in VarSet
              /\ assignment[i][2] \in domains[assignment[i][1]]
        /\ \A e \in EdgeSet :
              e[1] # e[2] => DictGet(assignment, e[1]) # DictGet(assignment, e[2])

\* C1 witness: a search over three variables returned an assignment although
\* it had to reject a value because of an edge between two different variables.
C1_Witness ==
    /\ SearchReturned /\ ret = "dict"
    /\ Len(assignment) = 3
    /\ \E e \in EdgeSet :
          /\ e[1] # e[2]
          /\ domains[e[1]] \cap domains[e[2]] # {}
          /\ Cardinality(domains[e[1]]) = 2

\* C2 (as claimed): backtracking_search() returns an assignment if some
\* complete assignment over the current domains gives different values to
\* the two ends of every declared edge, and None if there is none.
C2_SearchComplete ==
    SearchReturned =>
        /\ (Solutions(domains) # {} => ret = "dict")
        /\ (Solutions(domains) = {} => ret = "None")

\* C3 (as claimed, on instances declared with non-empty domains and with
\* edges between two different variables only): if ac_3() returns True then
\* no domain is empty, and for every declared edge every value left at one
\* end has a different value left at the other end.
C3_Ac3TrueIsArcConsistent ==
    (/\ Ac3Returned /\ ret = "True"
     /\ \A v \in VarSet : declared[v] # {}
     /\ \A e \in EdgeSet : e[1] # e[2]) =>
        /\ \A v \in VarSet : domains[v] # {}
        /\ \A e \in EdgeSet :
              /\ ArcConsistent(domains, e[1], e[2])
              /\ ArcConsistent(domains, e[2], e[1])

\* C4: during and after a run of ac_3(), every complete assignment that
\* satisfies every declared edge over the domains the run started from still
\* has all its values in the domains; and when the run returns False there is
\* no such assignment.
C4_Ac3Sound ==
    (op = "ac_3") =>
        /\ \A f \in Solutions(entry) : \A v \in VarSet : f[v] \in domains[v]
        /\ (pc = "idle" /\ ret = "False" => Solutions(entry) = {})

\* C5: on a CSP with exactly one solution ac_3() returns True, a
\* backtracking_search() called right after that ac_3() returns the solution,
\* and so does a backtracking_search() called on the CSP itself.
C5_UniqueSolutionFound ==
    /\ (Ac3Returned /\ Cardinality(Solutions(entry)) = 1) => ret = "True"
    /\ (SearchReturned /\ prevOp = "ac_3" /\ Cardinality(Solutions(prevEntry)) = 1) =>
          /\ ret = "dict"
          /\ \A f \in Solutions(prevEntry) : AssignmentIs(f)
    /\ (SearchReturned /\ Cardinality(Solutions(entry)) = 1) =>
          /\ ret = "dict"
          /\ \A f \in Solutions(entry) : AssignmentIs(f)

\* C6 (as claimed): a constructor call whose edges name a variable that is
\* not in the variables list, or whose domains lack a declared variable,
\* ends with an error and produces no instance.
C6_ConstructRejectsMalformed ==
    (pc # "new" /\ Malformed) => pc = "KeyError"

\* C7: when ac_3() has run twice in a row, the second run has left the
\* domains exactly as the first run left them; stated here for a first run
\* that returned True, the case in which the first run has worked through
\* its whole worklist.
C7_Ac3TwiceSameDomainsAfterTrue ==
    (Ac3Returned /\ prevOp = "ac_3" /\ prevRet = "True") => domains = entry

\* C8: after a successful construction every declared edge (u,v) is a key of
\* the store, the set under it is symmetric, and for a in domain(u) and b in
\* domain(v) it holds (a,b) exactly when a # b.
C8_StoredSetDecidesDiffer ==
    pc = "idle" =>
        \A e \in EdgeSet :
            /\ DictHas(binary_constraints, e)
            /\ \A p \in DictGet(binary_constraints, e)[1] :
                  <<p[2], p[1]>> \in DictGet(binary_constraints, e)[1]
            /\ (e[1] \in DOMAIN domains /\ e[2] \in DOMAIN domains) =>
                  \A a \in domains[e[1]], b \in domains[e[2]] :
                     <<a, b>> \in DictGet(binary_constraints, e)[1] <=> a # b

\* C8 witness: an instance was built with an edge between two variables whose
\* domains are different and overlap.
C8_Witness ==
    /\ pc = "idle"
    /\ \E e \in EdgeSet :
          /\ e[1] \in DOMAIN domains /\ e[2] \in DOMAIN domains
          /\ domains[e[1]] # domains[e[2]]
          /\ domains[e[1]] \cap domains[e[2]] # {}
          /\ DictGet(binary_constraints, e)[1] # {}

\* C9: alldiff, called on a list of n pairwise different variables, returns
\* n*(n-1)/2 pairs in which every two different variables of the list are
\* paired exactly once, in one orientation, and no variable is paired with
\* itself; and it leaves the list as it was.
C9_AlldiffPairsEachOnce ==
    [][(pc = "alldiff" /\ pc' = "returned" /\ PairwiseDifferent(args)) =>
          /\ args' = args
          /\ 2 * Len(pairs') = Len(args) * (Len(args) - 1)
          /\ \A k \in DOMAIN pairs' : pairs'[k][1] # pairs'[k][2]
          /\ \A a, b \in Range(args) :
                a # b => Cardinality({k \in DOMAIN pairs' :
                            pairs'[k] = <<a, b>> \/ pairs'[k] = <<b, a>>}) = 1]_vars

\* C9 witness: alldiff has returned the pairs of a list of three different
\* variables.
C9_Witness ==
    /\ pc = "returned"
    /\ PairwiseDifferent(args)
    /\ Len(args) = 3
    /\ Len(pairs) = 3

\* C10: every domain is a subset of the domain the variable was declared
\* with, in every state, and no step adds a value to a domain.
C10_DomainsOnlyShrink ==
    /\ \A v \in VarSet : domains[v] \subseteq declared[v]
    /\ [][\A v \in VarSet :
            /\ domains'[v] \subseteq domains[v]
            /\ domains'[v] \subseteq declared[v]]_vars

\* C10 witness: ac_3() is in the middle of a run and has removed a value.
C10_Witness ==
    /\ pc = "ac_3"
    /\ queue # <<>>
    /\ domains # declared

\* C11: when ac_3() has returned True and is called again, the second run
\* removes no value at any of its steps and returns True.
C11_SecondRunAfterTrueIsNoOp ==
    (op = "ac_3" /\ prevOp = "ac_3" /\ prevRet = "True") =>
        /\ domains = entry
        /\ pc = "idle" => ret = "True"

\* C12: whatever arc each iteration of ac_3() takes from the worklist, the
\* run returns the same boolean as the last-in-first-out run of the code,
\* and when that is True it leaves the same domains.
C12_Ac3OrderIndependent ==
    Ac3Returned =>
        \A r \in Ac3Lifo(entry, binary_constraints) :
            /\ ret = r.ret
            /\ ret = "True" => domains = r.domains

\* C13: every active call of backtrack works on the first variable in
\* declaration order that was unassigned when it began and takes that
\* variable's values in domain-iteration order; and when a solution exists
\* the search returns the smallest solution in the lexicographic order
\* induced by the declaration order and the domain-iteration order.
C13_SearchReturnsFirstSolution ==
    /\ pc = "backtrack" =>
          \A d \in DOMAIN stack :
              /\ \E i \in DOMAIN variables :
                    /\ stack[d].var = variables[i]
                    /\ variables[i] \notin Assigned(stack[d].began)
                    /\ \A j \in 1..(i - 1) : variables[j] \in Assigned(stack[d].began)
              /\ IsSuffix(stack[d].todo, slots[stack[d].var])
    /\ (SearchReturned /\ Solutions(domains) # {}) =>
          /\ ret = "dict"
          /\ \E f \in Solutions(domains) :
                /\ AssignmentIs(f)
                /\ \A g \in Solutions(domains) : g = f \/ LexLess(f, g)

\* C13 witness: the search returned one of several solutions of a CSP over
\* three variables, and the first variable did not get its first value.
C13_Witness ==
    /\ SearchReturned
    /\ ret = "dict"
    /\ Cardinality(Solutions(domains)) >= 2
    /\ Len(variables) = 3
    /\ assignment[1][2] # slots[assignment[1][1]][1]

\* C14: at every step of the search the assignment has entries for declared
\* variables only, namely for the first k variables of the declaration
\* order, one entry each; two different assigned variables joined by an edge
\* have different values; and a call of backtrack that returns None does so
\* with the assignment it was called with.
C14_AssignmentDiscipline ==
    (op = "backtracking_search") =>
        /\ Assigned(assignment) \subseteq VarSet
        /\ Assigned(assignment) = {variables[i] : i \in 1..Len(assignment)}
        /\ Cardinality(Assigned(assignment)) = Len(assignment)
        /\ \A e \in EdgeSet :
              (e[1] # e[2] /\ e[1] \in Assigned(assignment) /\ e[2] \in Assigned(assignment))
                  => DictGet(assignment, e[1]) # DictGet(assignment, e[2])
        /\ (pc = "backtrack" /\ mode = "loop" /\ stack[Len(stack)].todo = <<>>)
              => assignment = stack[Len(stack)].began
        /\ (pc = "idle" /\ ret = "None") => assignment = <<>>

\* C14 witness: a call of backtrack two levels down is about to return None
\* after it had assigned its variable and the call below it failed.
C14_Witness ==
    /\ pc = "backtrack"
    /\ mode = "loop"
    /\ Len(stack) = 2
    /\ stack[2].todo = <<>>
    /\ Len(assignment) = 1
    /\ \E v \in domains[stack[2].var] :
          IsConsistent(domains, binary_constraints, stack[2].var, v, assignment)

\* C15: no step of backtracking_search(), from the call to the return,
\* changes a domain, the variable list or the constraint store; on return
\* the domains are those of the call.
C15_SearchLeavesInstanceAlone ==
    /\ (op = "backtracking_search") => domains = entry
    /\ [][(op' = "backtracking_search") =>
            /\ domains' = domains
            /\ variables' = variables
            /\ binary_constraints' = binary_constraints]_vars

\* C15 witness: the search returned an assignment after the branch of the
\* first value of the first variable had failed.
C15_Witness ==
    /\ SearchReturned
    /\ ret = "dict"
    /\ Len(assignment) >= 2
    /\ Cardinality(domains[assignment[1][1]]) = 2
    /\ assignment[1][2] = 2

\* C16: in an iteration of ac_3() that pops the arc (Xi,Xj): when the
\* revision removes a value of Xi and leaves its domain non-empty, the loop
\* goes on and (Xk,Xi) is on the worklist for every neighbour Xk of Xi other
\* than Xj; when it removes nothing the worklist is the old one less the
\* popped arc; when it empties the domain of Xi the call returns False in
\* that same step.
C16_RequeueRule ==
    [][(pc = "ac_3" /\ queue # <<>>) =>
         LET Xi == queue[Len(queue)][1]
             Xj == queue[Len(queue)][2]
         IN /\ (domains'[Xi] # domains[Xi] /\ domains'[Xi] # {}) =>
                  /\ pc' = "ac_3"
                  /\ \A Xk \in EdgeNeighbours(Xi) \ {Xj} : <<Xk, Xi>> \in Range(queue')
            /\ (domains'[Xi] = domains[Xi]) =>
                  /\ pc' = "ac_3"
                  /\ queue' = SubSeq(queue, 1, Len(queue) - 1)
            /\ (domains'[Xi] # domains[Xi] /\ domains'[Xi] = {}) =>
                  /\ pc' = "idle"
                  /\ ret' = "False"]_vars

\* C16 witness: the worklist of a running ac_3() holds an arc twice although
\* its initial worklist held every arc once, so a revision has re-enqueued
\* an arc that was still waiting.
C16_Witness ==
    /\ pc = "ac_3"
    /\ \A e \in EdgeSet : e[1] # e[2] /\ <<e[2], e[1]>> \notin EdgeSet
    /\ \E i, j \in DOMAIN queue : i < j /\ queue[i] = queue[j]

\* C17: every call of ac_3() returns: a running call leads to a state where
\* it has returned True with an empty worklist or False with an emptied
\* domain.
C17_Ac3Terminates ==
    (pc = "ac_3") ~>
        /\ pc = "idle"
        /\ op = "ac_3"
        /\ \/ ret = "True" /\ queue = <<>>
           \/ ret = "False" /\ \E v \in VarSet : domains[v] = {}

\* C17 witness: a call of ac_3() has returned False on a CSP of three
\* variables after it had revised the domains of two of them.
C17_Witness ==
    /\ Ac3Returned
    /\ ret = "False"
    /\ Len(variables) = 3
    /\ Cardinality({v \in VarSet : domains[v] # entry[v]}) >= 2

\* C18: after a successful construction every pair (v1,v2) stored under a
\* key (A,B) has v1 in the declared domain of A and v2 in the declared
\* domain of B.
C18_NoReversedPair ==
    pc = "idle" =>
        \A i \in DOMAIN binary_constraints :
            \A p \in binary_constraints[i][2] :
                /\ p[1] \in declared[binary_constraints[i][1][1]]
                /\ p[2] \in declared[binary_constraints[i][1][2]]

\* C18 as the constructor has it: every pair stored under a key (A,B) has
\* two different values, one from the declared domain of A and the other
\* from the declared domain of B, in either order.
C18_PairsJoinTheTwoDomains ==
    pc = "idle" =>
        \A i \in DOMAIN binary_constraints :
            LET A == binary_constraints[i][1][1]
                B == binary_constraints[i][1][2]
            IN \A p \in binary_constraints[i][2] :
                  /\ p[1] # p[2]
                  /\ \/ p[1] \in declared[A] /\ p[2] \in declared[B]
                     \/ p[2] \in declared[A] /\ p[1] \in declared[B]

\* C18 witness: a constructed instance stores, under a key (A,B), a pair
\* whose first value is not in the domain of A.
C18_Witness ==
    /\ pc = "idle"
    /\ \E i \in DOMAIN binary_constraints :
          \E p \in binary_constraints[i][2] :
              /\ p[1] \notin declared[binary_constraints[i][1][1]]
              /\ p[2] \in declared[binary_constraints[i][1][1]]

\* C19: when the edge list holds an edge from a variable to itself,
\* backtracking_search() returns None.
C19_SelfEdgeNoAssignment ==
    (SearchReturned /\ \E e \in EdgeSet : e[1] = e[2]) => ret = "None"

====
